---- MODULE Spec2Model ----
(***************************************************************************)
(* Campus Store chatbot: the /chat request handler and its session store.  *)
(*                                                                         *)
(* The handler is a synchronous FastAPI endpoint (`def chat`), so requests *)
(* run on pool threads and interleave statement by statement; nothing in   *)
(* the handler or the store takes a lock.  Python dicts are reference      *)
(* values: `sessions` maps a key to a session object, and a request keeps  *)
(* the object it was handed by get_or_create_session.                      *)
(*                                                                         *)
(* Text is a sequence of one-character strings, so that pattern matching   *)
(* (course codes, keywords) is computed on the characters.                 *)
(***************************************************************************)
EXTENDS Naturals, Integers, Sequences, FiniteSets, TLC

VARIABLES
    sessions,   \* the dict `sessions`: key -> session object (0: key absent)
    heap,       \* the session objects, in allocation order
    now,        \* the clock read by datetime.now(); it stands still in Spec,
                \* where no step of the handler depends on it
    req,        \* per request: position in chat() and its locals
    call,       \* the session-store call last made (bookkeeping)
    rag,        \* the FAQRetriever object and the retrieve call in progress
    ui          \* the React page: App and ChatInput state, requests sent

vars == <<sessions, heap, now, req, call, rag, ui>>

----------------------------------------------------------------------------
(* Bounds *)

MaxRequests == 2

Reqs == 1..MaxRequests

----------------------------------------------------------------------------
(* Text *)

NoText == <<"None">>

MsgCantAccess == <<"I", " ", "c", "a", "n", "'", "t", " ", "a", "c", "c", "e", "s", "s", " ", "C", "e", "n", "g", "a", "g", "e">>

MsgItsBIO101 == <<"i", "t", "'", "s", " ", "B", "I", "O", "1", "0", "1", " ", "f", "o", "r", " ", "b", "i", "o", "l", "o", "g", "y">>

MsgReturnPolicy == <<"W", "h", "a", "t", " ", "i", "s", " ", "y", "o", "u", "r", " ", "r", "e", "t", "u", "r", "n", " ", "p", "o", "l", "i", "c", "y", "?">>

\* the messages a caller sends: an access issue without a course code, a
\* reply that carries a course code, a question that carries none
Messages == {MsgCantAccess, MsgItsBIO101, MsgReturnPolicy}

CodeBIO101 == <<"B", "I", "O", "1", "0", "1">>

KwAccess == <<"a", "c", "c", "e", "s", "s">>

KwCengage == <<"C", "e", "n", "g", "a", "g", "e">>

KwMcGraw == <<"M", "c", "G", "r", "a", "w">>

ClarificationPrompt == <<"W", "h", "a", "t", "'", "s", " ", "y", "o", "u", "r", " ", "c", "o", "u", "r", "s", "e", " ", "c", "o", "d", "e", "?">>

GeneratedReply == <<"r", "e", "p", "l", "y">>

UpperCase == {"A", "B", "C", "D", "E", "F", "G", "H", "I", "J", "K", "L", "M", "N", "O", "P", "Q", "R", "S", "T", "U", "V", "W", "X", "Y", "Z"}

Digits == {"0", "1", "2", "3", "4", "5", "6", "7", "8", "9"}

\* s[i..] starts with w
StartsAt(s, i, w) ==
    /\ i + Len(w) - 1 <= Len(s)
    /\ \A j \in 1..Len(w) : s[i + j - 1] = w[j]

\* `w in s` on strings
Contains(s, w) == \E i \in 1..Len(s) : StartsAt(s, i, w)

\* str.lower() on the letters used
UpperSeq == <<"A", "B", "C", "D", "E", "F", "G", "H", "I", "J", "K", "L", "M", "N", "O", "P", "Q", "R", "S", "T", "U", "V", "W", "X", "Y", "Z">>

LowerSeq == <<"a", "b", "c", "d", "e", "f", "g", "h", "i", "j", "k", "l", "m", "n", "o", "p", "q", "r", "s", "t", "u", "v", "w", "x", "y", "z">>

ToLower(c) ==
    IF \E i \in 1..Len(UpperSeq) : UpperSeq[i] = c
    THEN LowerSeq[CHOOSE i \in 1..Len(UpperSeq) : UpperSeq[i] = c]
    ELSE c

Lower(s) == [i \in 1..Len(s) |-> ToLower(s[i])]

\* str.split(): the maximal runs of characters other than the space
Split(s) ==
    LET starts == {i \in 1..Len(s) : s[i] # " " /\ (i = 1 \/ s[i - 1] = " ")}
        EndOf(i) == CHOOSE j \in i..Len(s) :
                        /\ \A k \in i..j : s[k] # " "
                        /\ j = Len(s) \/ s[j + 1] = " "
    IN  {SubSeq(s, i, EndOf(i)) : i \in starts}

\* s[:n]
Take(s, n) == SubSeq(s, 1, IF Len(s) < n THEN Len(s) ELSE n)

\* pronouns = ["it", "that", "this", "there", "where"]
pronouns ==
    {<<"i", "t">>, <<"t", "h", "a", "t">>, <<"t", "h", "i", "s">>,
     <<"t", "h", "e", "r", "e">>, <<"w", "h", "e", "r", "e">>}

\* last_response[:200]
ExcerptChars == 200

\* the content of the last assistant turn, found scanning from the end
LastAssistant(history) ==
    LET at == {i \in 1..Len(history) : history[i].role = "assistant"}
    IN  IF at = {} THEN NoText
        ELSE history[CHOOSE i \in at : \A j \in at : j <= i].content

\* build_contextual_query: the first ExcerptChars characters of the last
\* assistant turn and a space in front of a message that has a pronoun among
\* its words; the message itself otherwise
build_contextual_query(message, history) ==
    IF Len(history) < 2 THEN message
    ELSE LET last_response == LastAssistant(history)
         IN  IF last_response = NoText \/ last_response = <<>> THEN message
             ELSE IF Split(Lower(message)) \cap pronouns # {}
             THEN Take(last_response, ExcerptChars) \o <<" ">> \o message
             ELSE message

\* a FAQ chunk that ends with its article link
ChunkWithLink == <<"A", "r", "t", "i", "c", "l", "e", " ", "l", "i", "n", "k", ":", " ", "\"", "h", "t", "t", "p", "s", ":", "/", "/", "x", "\"">>

\* the system message of LlamaClient.chat
SystemPrompt == <<"Y", "o", "u", " ", "a", "r", "e", " ", "a", " ", "C", "a", "m", "p", "u", "s", " ", "S", "t", "o", "r", "e", " ", "a", "s", "s", "i", "s", "t", "a", "n", "t", ".">>

ReferenceHeader == <<"R", "e", "f", "e", "r", "e", "n", "c", "e", " ", "i", "n", "f", "o", "r", "m", "a", "t", "i", "o", "n", ":">> \o <<"\n">>

\* the messages LlamaClient.chat posts: the system message, the reference
\* context appended with role assistant, the user's message
LlmMessages(user_message, context) ==
    <<[role |-> "system", content |-> SystemPrompt],
      [role |-> "assistant", content |-> ReferenceHeader \o context],
      [role |-> "user", content |-> user_message]>>

\* the course-code pattern at position i with n letters: n upper-case
\* letters followed by CodeDigits digits
CodeMinLetters == 2

CodeMaxLetters == 4

CodeDigits == 3

CodeAt(s, i, n) ==
    /\ i + n + CodeDigits - 1 <= Len(s)
    /\ \A j \in i..(i + n - 1) : s[j] \in UpperCase
    /\ \A j \in (i + n)..(i + n + CodeDigits - 1) : s[j] \in Digits

CodeStarts(s) ==
    {i \in 1..Len(s) : \E n \in CodeMinLetters..CodeMaxLetters : CodeAt(s, i, n)}

\* re.search of the course-code pattern: the leftmost match, or None
extract_course_code(s) ==
    IF CodeStarts(s) = {} THEN NoText
    ELSE LET i == CHOOSE k \in CodeStarts(s) : \A m \in CodeStarts(s) : k <= m
             n == CHOOSE k \in CodeMinLetters..CodeMaxLetters : CodeAt(s, i, k)
         IN  SubSeq(s, i, i + n + CodeDigits - 1)

----------------------------------------------------------------------------
(* Sessions *)

None == "None"

\* payload.session_id: absent, or a caller-supplied id
PayloadIds == {None, "s1"}

SessionKeys == {"default", "s1"}

\* one process-wide conversation state, whatever the payload says
SessionKeyGlobal(payload_id) == "default"

\* a request without a session id joins the session of an explicit id
SessionKeyJoinsExplicit(payload_id) ==
    IF payload_id = None THEN "s1" ELSE payload_id

\* session_id = payload.session_id or "default"
SessionKey(payload_id) == IF payload_id = None THEN "default" ELSE payload_id

\* the dict get_or_create_session stores for a new key
NewSession ==
    [history |-> <<>>, awaiting_course_code |-> FALSE,
     stored_intent |-> None, stored_platform |-> None, last_activity |-> now]

\* a history turn; `req` records which request appended it (bookkeeping only,
\* the program stores role and content)
Turn(role, content, r) == [role |-> role, content |-> content, req |-> r]

\* intent and platform detection of a fresh message
DetectIntent(message) ==
    IF Contains(message, KwAccess) THEN "IA_ACCESS_ISSUE" ELSE "GENERAL_FAQ"

DetectPlatform(message) ==
    IF Contains(message, KwCengage) THEN "CENGAGE"
    ELSE IF Contains(message, KwMcGraw) THEN "MCGRAW_HILL"
    ELSE None

\* an access issue without a course code needs the clarification question
NeedsCourseCode(message) ==
    /\ DetectIntent(message) = "IA_ACCESS_ISSUE"
    /\ extract_course_code(message) = NoText

\* the whole message taken as the course code
SlotValueRaw(message) == message

\* the value taken as the course code while a clarification is pending
SlotValue(message) == extract_course_code(message)

----------------------------------------------------------------------------
(* Requests *)

\* what a session looks like to a caller: everything but the activity stamp
View(s) ==
    [history |-> s.history, awaiting_course_code |-> s.awaiting_course_code,
     stored_intent |-> s.stored_intent, stored_platform |-> s.stored_platform]

NoSessionView ==
    [history |-> <<>>, awaiting_course_code |-> FALSE,
     stored_intent |-> None, stored_platform |-> None]

StoredView(key) ==
    IF sessions[key] = 0 THEN NoSessionView ELSE View(heap[sessions[key]])

NoResponse == [kind |-> "none", reply |-> NoText]

IdleReq ==
    [pc |-> "none", payload_id |-> None, session_id |-> None, message |-> NoText,
     missing |-> FALSE, session |-> 0, branch |-> "none",
     course_code |-> NoText, intent |-> None, platform |-> None,
     query |-> NoText, retrieval |-> "none", llm_messages |-> <<>>,
     response |-> NoResponse,
     concurrent |-> FALSE, pre |-> NoSessionView]

Finished(r) == req[r].pc \in {"done", "failed"}

InFlight(r) == req[r].pc \notin {"none", "done", "failed"}

\* else branch: detect intent and platform of a fresh message; an access
\* issue without a course code goes on to the clarification question
DetectFresh(q) ==
    [q EXCEPT !.pc = IF NeedsCourseCode(q.message) THEN "ask" ELSE "append_user",
              !.branch = IF NeedsCourseCode(q.message) THEN "clarify" ELSE "fresh",
              !.course_code = extract_course_code(q.message),
              !.intent = DetectIntent(q.message),
              !.platform = DetectPlatform(q.message)]

\* no submit event handled and no request settled last
NoEvent == [kind |-> "none", draft |-> <<>>, disabled |-> FALSE, sent |-> 0]

\* the page as loaded, before the mount effect has run: useState initial
\* values of App and ChatInput; `page` counts the page loads, `requests` are
\* the chat requests this page has sent, `previous_ids` the session ids of
\* the pages before it, `event` the submit event handled last (bookkeeping)
FreshPage(page, previous_ids) ==
    [page |-> page, mounted |-> FALSE,
     messages |-> <<>>, sessionId |-> 0, isLoading |-> FALSE,
     apiStatus |-> "checking", message |-> <<>>,
     health |-> "none", requests |-> <<>>,
     previous_ids |-> previous_ids, event |-> NoEvent]

\* bookkeeping: the call last made, the store as it was before the call and
\* the object the call returned
NoCall ==
    [op |-> "none", session_id |-> None, at |-> 0,
     sessions |-> [k \in SessionKeys |-> 0], heap |-> <<>>, result |-> 0]

\* the FAISS indices a FAQRetriever can hold
IndexNames ==
    {"faq", "instructions", "instructions_cengage", "instructions_mcgraw"}

\* a FAQRetriever after __init__: whether each platform index was read (None
\* when the file is missing), the number of chunks behind each index, and the
\* locals and call counts of the retrieve call in progress
Retriever(cengage, mcgraw, chunks) ==
    [cengage |-> cengage, mcgraw |-> mcgraw, chunks |-> chunks,
     pc |-> "idle", query |-> NoText, collection |-> None, platform |-> None,
     selected_collection |-> None, index |-> None,
     embed_calls |-> 0, searches |-> 0, builds |-> 0,
     best_index |-> -1, best_score |-> 0, result |-> "none",
     context |-> NoText, article_link |-> NoText]

\* the retriever as FAQRetriever.__init__ leaves it when every index file is
\* there, with no retrieve call made
IdleRetriever == Retriever(TRUE, TRUE, [i \in IndexNames |-> 1])

Init ==
    /\ sessions = [k \in SessionKeys |-> 0]
    /\ heap = <<>>
    /\ now = 0
    /\ req = [r \in Reqs |-> IdleReq]
    /\ call = NoCall
    /\ rag = IdleRetriever
    /\ ui = FreshPage(1, {})

\* POST /chat arrives (requests are numbered in arrival order) and runs up to
\* get_or_create_session's `if session_id not in sessions`.
\* concurrent and pre are bookkeeping: whether another request on the same
\* key was in flight at arrival, and, if none was, the stored session as it
\* was then.
Receive(r, payload_id, message) ==
    /\ req[r].pc = "none"
    /\ r > 1 => req[r - 1].pc # "none"
    /\ LET key == SessionKey(payload_id)
           busy == \E q \in Reqs : InFlight(q) /\ req[q].session_id = key
       IN  req' = [req EXCEPT ![r] =
                     [@ EXCEPT !.pc = "create",
                               !.payload_id = payload_id,
                               !.session_id = key,
                               !.message = message,
                               !.missing = (sessions[key] = 0),
                               !.concurrent = busy,
                               !.pre = IF busy THEN NoSessionView ELSE StoredView(key)]]
    /\ UNCHANGED <<sessions, heap, now, call, rag, ui>>

\* get_or_create_session behind one process-wide lock that a request holds
\* until it ends
CreateOrRefreshGlobalLock(r) ==
    /\ req[r].pc = "create"
    /\ \A q \in Reqs : q # r => req[q].pc \in {"none", "create", "done", "failed"}
    /\ LET key == req[r].session_id
           h1 == IF req[r].missing THEN Append(heap, NewSession) ELSE heap
           obj == IF req[r].missing THEN Len(heap) + 1 ELSE sessions[key]
       IN  /\ sessions' = [sessions EXCEPT ![key] = obj]
           /\ heap' = [h1 EXCEPT ![obj].last_activity = now]
           /\ req' = [req EXCEPT ![r] =
                        [@ EXCEPT !.pc = "state_check", !.session = obj]]
    /\ UNCHANGED <<now, call, rag, ui>>

\* get_or_create_session: store a new dict if the key was missing, refresh
\* last_activity, return sessions[session_id]
CreateOrRefresh(r) ==
    /\ req[r].pc = "create"
    /\ LET key == req[r].session_id
           h1 == IF req[r].missing THEN Append(heap, NewSession) ELSE heap
           obj == IF req[r].missing THEN Len(heap) + 1 ELSE sessions[key]
       IN  /\ sessions' = [sessions EXCEPT ![key] = obj]
           /\ heap' = [h1 EXCEPT ![obj].last_activity = now]
           /\ req' = [req EXCEPT ![r] =
                        [@ EXCEPT !.pc = "state_check", !.session = obj]]
    /\ UNCHANGED <<now, call, rag, ui>>

\* the state check with the user message appended to history before it
StateCheckAppendFirst(r) ==
    /\ req[r].pc = "state_check"
    /\ heap' = [heap EXCEPT ![req[r].session].history =
                  Append(@, Turn("user", req[r].message, r))]
    /\ IF heap[req[r].session].awaiting_course_code
       THEN req' = [req EXCEPT ![r] = [@ EXCEPT !.pc = "slot_fill", !.branch = "slot"]]
       ELSE req' = [req EXCEPT ![r] = DetectFresh(req[r])]
    /\ UNCHANGED <<sessions, now, call, rag, ui>>

\* `if session["awaiting_course_code"]:`; when no clarification is pending
\* the else branch detects intent and platform of the fresh message
StateCheck(r) ==
    /\ req[r].pc = "state_check"
    /\ IF heap[req[r].session].awaiting_course_code
       THEN req' = [req EXCEPT ![r] = [@ EXCEPT !.pc = "slot_fill", !.branch = "slot"]]
       ELSE req' = [req EXCEPT ![r] = DetectFresh(req[r])]
    /\ UNCHANGED <<sessions, heap, now, call, rag, ui>>

\* awaiting branch: course code from the message, intent and platform from
\* the stash
SlotFillRead(r) ==
    /\ req[r].pc = "slot_fill"
    /\ req' = [req EXCEPT ![r] =
                 [@ EXCEPT !.pc = "clear_state",
                           !.course_code = SlotValue(req[r].message),
                           !.intent = heap[req[r].session].stored_intent,
                           !.platform = heap[req[r].session].stored_platform]]
    /\ UNCHANGED <<sessions, heap, now, call, rag, ui>>

\* awaiting branch: "# Clear state"
ClearState(r) ==
    /\ req[r].pc = "clear_state"
    /\ heap' = [heap EXCEPT ![req[r].session] =
                  [@ EXCEPT !.awaiting_course_code = FALSE,
                            !.stored_intent = None,
                            !.stored_platform = None]]
    /\ req' = [req EXCEPT ![r] = [@ EXCEPT !.pc = "append_user"]]
    /\ UNCHANGED <<sessions, now, call, rag, ui>>

\* else branch: ask for the course code, stash intent and platform, return
AskClarification(r) ==
    /\ req[r].pc = "ask"
    /\ heap' = [heap EXCEPT ![req[r].session] =
                  [@ EXCEPT !.awaiting_course_code = TRUE,
                            !.stored_intent = req[r].intent,
                            !.stored_platform = req[r].platform]]
    /\ req' = [req EXCEPT ![r] =
                 [@ EXCEPT !.pc = "done",
                           !.response = [kind |-> "AwaitingSlotPrompt",
                                         reply |-> ClarificationPrompt]]]
    /\ UNCHANGED <<sessions, now, call, rag, ui>>

\* the history append storing the contextual query in place of the message
AppendUserTurnQuery(r) ==
    /\ req[r].pc = "append_user"
    /\ heap' = [heap EXCEPT ![req[r].session].history =
                  Append(@, Turn("user",
                                 build_contextual_query(req[r].message, @), r))]
    /\ req' = [req EXCEPT ![r] = [@ EXCEPT !.pc = "retrieve"]]
    /\ UNCHANGED <<sessions, now, call, rag, ui>>

\* "APPEND TO HISTORY AFTER STATE RESOLUTION"
AppendUserTurn(r) ==
    /\ req[r].pc = "append_user"
    /\ heap' = [heap EXCEPT ![req[r].session].history =
                  Append(@, Turn("user", req[r].message, r))]
    /\ req' = [req EXCEPT ![r] = [@ EXCEPT !.pc = "retrieve"]]
    /\ UNCHANGED <<sessions, now, call, rag, ui>>

\* contextual_query = build_contextual_query(message, session["history"]),
\* then retriever.retrieve(contextual_query, ...)
Retrieve(r) ==
    /\ req[r].pc = "retrieve"
    /\ req' = [req EXCEPT ![r] =
                 [@ EXCEPT !.pc = "generate", !.retrieval = "done",
                           !.query = build_contextual_query(
                                        req[r].message,
                                        heap[req[r].session].history)]]
    /\ UNCHANGED <<sessions, heap, now, call, rag, ui>>

\* the embedding call or the index search raises: the request ends with an error
RetrieveAbort(r) ==
    /\ req[r].pc = "retrieve"
    /\ req' = [req EXCEPT ![r] =
                 [@ EXCEPT !.pc = "failed",
                           !.response = [kind |-> "error", reply |-> NoText]]]
    /\ UNCHANGED <<sessions, heap, now, call, rag, ui>>

\* llm.chat(...) posts its messages and returns the reply text
Generate(r) ==
    /\ req[r].pc = "generate"
    /\ req' = [req EXCEPT ![r] =
                 [@ EXCEPT !.pc = "append_assistant",
                           !.llm_messages =
                               LlmMessages(req[r].message, ChunkWithLink),
                           !.response = [kind |-> "reply", reply |-> GeneratedReply]]]
    /\ UNCHANGED <<sessions, heap, now, call, rag, ui>>

\* llm.chat(...) raises (HTTP error, timeout, malformed response): chat()
\* turns it into HTTPException(500)
GenerateFail(r) ==
    /\ req[r].pc = "generate"
    /\ req' = [req EXCEPT ![r] =
                 [@ EXCEPT !.pc = "failed",
                           !.response = [kind |-> "error", reply |-> NoText]]]
    /\ UNCHANGED <<sessions, heap, now, call, rag, ui>>

\* the assistant's reply joins the history and the response is returned
AppendAssistantTurn(r) ==
    /\ req[r].pc = "append_assistant"
    /\ heap' = [heap EXCEPT ![req[r].session].history =
                  Append(@, Turn("assistant", req[r].response.reply, r))]
    /\ req' = [req EXCEPT ![r] = [@ EXCEPT !.pc = "done"]]
    /\ UNCHANGED <<sessions, now, call, rag, ui>>

Next ==
    \/ \E r \in Reqs, p \in PayloadIds, m \in Messages : Receive(r, p, m)
    \/ \E r \in Reqs : CreateOrRefresh(r)
    \/ \E r \in Reqs : StateCheck(r)
    \/ \E r \in Reqs : SlotFillRead(r)
    \/ \E r \in Reqs : ClearState(r)
    \/ \E r \in Reqs : AskClarification(r)
    \/ \E r \in Reqs : AppendUserTurn(r)
    \/ \E r \in Reqs : Retrieve(r)
    \/ \E r \in Reqs : RetrieveAbort(r)
    \/ \E r \in Reqs : Generate(r)
    \/ \E r \in Reqs : GenerateFail(r)
    \/ \E r \in Reqs : AppendAssistantTurn(r)

Spec == Init /\ [][Next]_vars

----------------------------------------------------------------------------
(* Properties of the handler *)

Objects == 1..Len(heap)

\* the positions <<object, index>> of the turns request r appended
TurnsOf(r, role) ==
    {<<o, i>> \in Objects \X (1..(2 * MaxRequests)) :
        /\ i <= Len(heap[o].history)
        /\ heap[o].history[i].req = r
        /\ heap[o].history[i].role = role}

\* r ran with no other request on its session: none was in flight when it
\* arrived and none has arrived on the same key since
Alone(r) ==
    /\ req[r].pc # "none"
    /\ ~req[r].concurrent
    /\ \A q \in Reqs : q > r => req[q].session_id # req[r].session_id

\* the key a payload id stands for, read off the payload alone
OwnerKey(payload_id) == IF payload_id = "s1" THEN "s1" ELSE "default"

\* C1: no history holds a raw slot-fill fragment: a user message that was
\* received while a clarification was pending and supplied the course code
\* is never an element of history.
C1_NoSlotFragmentInHistory ==
    \A r \in Reqs :
        (req[r].branch = "slot" /\ req[r].course_code # NoText)
            => TurnsOf(r, "user") = {}

\* C2: a message that arrives while a clarification is pending and carries
\* no course code is answered with a re-prompt, and the session keeps its
\* pending flag and its stashed intent and platform.
C2_MalformedSlotReprompts ==
    \A r \in Reqs :
        (/\ Finished(r)
         /\ Alone(r)
         /\ req[r].branch = "slot"
         /\ extract_course_code(req[r].message) = NoText)
            => /\ req[r].response.kind = "AwaitingSlotPrompt"
               /\ StoredView(req[r].session_id).awaiting_course_code
               /\ StoredView(req[r].session_id).stored_intent = req[r].pre.stored_intent
               /\ StoredView(req[r].session_id).stored_platform = req[r].pre.stored_platform

\* C3: a message that arrives while a clarification is pending and carries
\* the course code is resolved by that one call: the call takes intent and
\* platform from the stash, clears the pending flag, runs retrieval, leaves
\* the session idle and appends the exchange (its user turn, then its
\* assistant turn) to history.
C3_SlotFillResolves ==
    \A r \in Reqs :
        (/\ Finished(r)
         /\ Alone(r)
         /\ req[r].branch = "slot"
         /\ extract_course_code(req[r].message) # NoText)
            => LET v == StoredView(req[r].session_id)
                   n == Len(req[r].pre.history)
               IN  /\ req[r].course_code = extract_course_code(req[r].message)
                   /\ req[r].intent = req[r].pre.stored_intent
                   /\ req[r].platform = req[r].pre.stored_platform
                   /\ req[r].retrieval = "done"
                   /\ ~v.awaiting_course_code
                   /\ v.stored_intent = None /\ v.stored_platform = None
                   /\ Len(v.history) = n + 2
                   /\ SubSeq(v.history, 1, n) = req[r].pre.history
                   /\ v.history[n + 1].role = "user" /\ v.history[n + 1].req = r
                   /\ v.history[n + 2].role = "assistant" /\ v.history[n + 2].req = r

C5_AppendOnceIfConversational ==
    \A r \in Reqs :
        /\ TurnsOf(r, "user") # {} => req[r].branch # "none"
        /\ Finished(r) =>
               Cardinality(TurnsOf(r, "user")) = IF req[r].branch = "fresh" THEN 1 ELSE 0

\* C6: the course code taken from a slot-fill reply is the part of the
\* message that matches the course-code pattern, never the message itself:
\* "it's BIO101 for biology" gives exactly "BIO101", and a reply without a
\* code gives none.
C6_SlotIsMatchedSubstring ==
    \A r \in Reqs :
        (req[r].branch = "slot" /\ req[r].pc # "slot_fill")
            => LET c == req[r].course_code
               IN  /\ \/ c = NoText
                      \/ /\ \E n \in CodeMinLetters..CodeMaxLetters :
                                Len(c) = n + CodeDigits /\ CodeAt(c, 1, n)
                         /\ Contains(req[r].message, c)
                   /\ req[r].message = MsgItsBIO101 => c = CodeBIO101
                   /\ req[r].message = MsgReturnPolicy => c = NoText

C6_Witness ==
    \E r \in Reqs :
        /\ req[r].branch = "slot"
        /\ req[r].message = MsgItsBIO101
        /\ req[r].course_code = CodeBIO101

\* one call run to completion on a session view, with nothing interleaved;
\* ok says whether retrieval and generation succeed
SerialCall(v, r, ok) ==
    LET m == req[r].message
        turns == IF ok THEN <<Turn("user", m, r), Turn("assistant", GeneratedReply, r)>>
                 ELSE <<Turn("user", m, r)>>
    IN  IF v.awaiting_course_code
        THEN [history |-> v.history \o turns, awaiting_course_code |-> FALSE,
              stored_intent |-> None, stored_platform |-> None]
        ELSE IF NeedsCourseCode(m)
        THEN [v EXCEPT !.awaiting_course_code = TRUE,
                       !.stored_intent = DetectIntent(m),
                       !.stored_platform = DetectPlatform(m)]
        ELSE [v EXCEPT !.history = v.history \o turns]

RECURSIVE SerialRun(_, _, _)
SerialRun(v, order, oks) ==
    IF order = <<>> THEN v
    ELSE SerialRun(SerialCall(v, Head(order), oks[Head(order)]), Tail(order), oks)

Orders(rs) ==
    {o \in [1..Cardinality(rs) -> rs] : \A i, j \in 1..Cardinality(rs) : o[i] = o[j] => i = j}

\* C7: once all calls have ended, every session is in the state that some
\* serial execution of the calls made on it produces (with any outcome of
\* their retrieval and generation); no call's update is lost.
C7_SerialEquivalence ==
    (\A r \in Reqs : Finished(r))
        => \A key \in SessionKeys :
               LET rs == {r \in Reqs : req[r].session_id = key}
               IN  \E o \in Orders(rs), oks \in [rs -> BOOLEAN] :
                       SerialRun(NoSessionView, o, oks) = StoredView(key)

\* C8: a session's history holds only turns of calls made with that session
\* id: in every stored session, and in every session object a call works on,
\* each turn was appended by a call whose payload names that session.
C8_NoCrossContamination ==
    /\ \A key \in SessionKeys :
           \A i \in 1..Len(StoredView(key).history) :
               OwnerKey(req[StoredView(key).history[i].req].payload_id) = key
    /\ \A r \in Reqs :
           req[r].session # 0 =>
               \A i \in 1..Len(heap[req[r].session].history) :
                   OwnerKey(req[heap[req[r].session].history[i].req].payload_id)
                       = OwnerKey(req[r].payload_id)

C8_Witness ==
    \E r1, r2 \in Reqs :
        /\ req[r1].payload_id = None /\ req[r2].payload_id = "s1"
        /\ req[r1].pc = "generate" /\ req[r2].pc = "generate"
        /\ StoredView("default").history # <<>>
        /\ StoredView("s1").history # <<>>

\* C9: a request that is aborted at a suspension point (retrieval or
\* generation) leaves its session equal to the state before the request.
C9_AbortLeavesPreState ==
    \A r \in Reqs :
        (req[r].pc = "failed" /\ Alone(r))
            => StoredView(req[r].session_id) = req[r].pre

\* a request is inside its state-machine transition from the moment it has
\* read the pending flag until it ends
InTransition(r) ==
    req[r].pc \in {"slot_fill", "clear_state", "ask", "append_user",
                   "retrieve", "generate", "append_assistant"}

\* C10: on one session id transitions are applied in arrival order, one at
\* a time: a later request is not in (or past) its transition before every
\* earlier request on that id has ended, and no two are in it together.
C10_ArrivalOrderExclusive ==
    \A r1, r2 \in Reqs :
        (r1 # r2 /\ req[r1].pc # "none" /\ req[r1].session_id = req[r2].session_id)
            => /\ ~(InTransition(r1) /\ InTransition(r2))
               /\ (r1 < r2 /\ (InTransition(r2) \/ Finished(r2))) => Finished(r1)

\* the next step of request r, whichever it is
StepOf(r) ==
    \/ CreateOrRefresh(r)
    \/ StateCheck(r)
    \/ SlotFillRead(r)
    \/ ClearState(r)
    \/ AskClarification(r)
    \/ AppendUserTurn(r)
    \/ Retrieve(r)
    \/ Generate(r)
    \/ AppendAssistantTurn(r)

\* Locking does not depend on what a message says: the requests of this
\* specification carry one ambiguous message and one plain question, which
\* take them through the clarification, the slot-fill and the retrieval paths.
ProgressMessages == {MsgCantAccess, MsgReturnPolicy}

NextProgress ==
    \/ \E r \in Reqs, p \in PayloadIds, m \in ProgressMessages : Receive(r, p, m)
    \/ \E r \in Reqs : CreateOrRefresh(r)
    \/ \E r \in Reqs : StateCheck(r)
    \/ \E r \in Reqs : SlotFillRead(r)
    \/ \E r \in Reqs : ClearState(r)
    \/ \E r \in Reqs : AskClarification(r)
    \/ \E r \in Reqs : AppendUserTurn(r)
    \/ \E r \in Reqs : Retrieve(r)
    \/ \E r \in Reqs : RetrieveAbort(r)
    \/ \E r \in Reqs : Generate(r)
    \/ \E r \in Reqs : GenerateFail(r)
    \/ \E r \in Reqs : AppendAssistantTurn(r)

SpecProgress == Init /\ [][NextProgress]_vars

-----------------------------------------------------------------------------
(* The session store on its own: get_or_create_session and
   cleanup_expired_sessions called one at a time while the clock advances *)

MaxTime == 3
MaxObjects == 3
MaxHistory == 1

\* timedelta(hours=1), the clock counting hours
SESSION_TIMEOUT == 1

\* the record of a store call: the store as it was before it and the object
\* it returned
Call(op, session_id, result) ==
    [op |-> op, session_id |-> session_id, at |-> now,
     sessions |-> sessions, heap |-> heap, result |-> result]

InitStore ==
    /\ sessions = [k \in SessionKeys |-> 0]
    /\ heap = <<>>
    /\ now = 0
    /\ req = [r \in Reqs |-> IdleReq]
    /\ call = NoCall
    /\ rag = IdleRetriever
    /\ ui = FreshPage(1, {})

\* datetime.now() moves on
Tick ==
    /\ now < MaxTime
    /\ now' = now + 1
    /\ call' = NoCall
    /\ UNCHANGED <<sessions, heap, req, rag, ui>>

\* get_or_create_session storing a fresh dict on every call
get_or_create_sessionAlwaysNew(session_id) ==
    /\ Len(heap) < MaxObjects
    /\ sessions' = [sessions EXCEPT ![session_id] = Len(heap) + 1]
    /\ heap' = Append(heap, NewSession)
    /\ call' = Call("get_or_create_session", session_id, Len(heap) + 1)
    /\ UNCHANGED <<now, req, rag, ui>>

\* get_or_create_session, run as one call
get_or_create_session(session_id) ==
    LET missing == sessions[session_id] = 0
        h1 == IF missing THEN Append(heap, NewSession) ELSE heap
        obj == IF missing THEN Len(heap) + 1 ELSE sessions[session_id]
    IN  /\ missing => Len(heap) < MaxObjects
        /\ sessions' = [sessions EXCEPT ![session_id] = obj]
        /\ heap' = [h1 EXCEPT ![obj].last_activity = now]
        /\ call' = Call("get_or_create_session", session_id, obj)
        /\ UNCHANGED <<now, req, rag, ui>>

\* session["chat_history"].append(...) by the owner of a stored session
AppendHistory(session_id, message) ==
    /\ sessions[session_id] # 0
    /\ Len(heap[sessions[session_id]].history) < MaxHistory
    /\ heap' = [heap EXCEPT ![sessions[session_id]].history =
                    Append(@, Turn("user", message, 0))]
    /\ call' = NoCall
    /\ UNCHANGED <<sessions, now, req, rag, ui>>

\* cleanup_expired_sessions with the comparison turned into >=
ExpiredAtTimeout(last_activity) == now - last_activity >= SESSION_TIMEOUT

\* the comparison of cleanup_expired_sessions
Expired(last_activity) == now - last_activity > SESSION_TIMEOUT

\* cleanup_expired_sessions: del sessions[sid] for every expired sid
cleanup_expired_sessions ==
    /\ sessions' = [k \in SessionKeys |->
                      IF sessions[k] # 0 /\ Expired(heap[sessions[k]].last_activity)
                      THEN 0 ELSE sessions[k]]
    /\ call' = Call("cleanup_expired_sessions", None, 0)
    /\ UNCHANGED <<heap, now, req, rag, ui>>

NextStore ==
    \/ Tick
    \/ \E k \in SessionKeys : get_or_create_session(k)
    \/ \E k \in SessionKeys : AppendHistory(k, MsgReturnPolicy)
    \/ cleanup_expired_sessions

SpecStore == InitStore /\ [][NextStore]_vars

\* C12: get_or_create_session on an unknown id stores a session with the
\* defaults; on a known id it returns the stored session with its history,
\* pending flag and stash as they were; either way the returned session's
\* last_activity is the time of the call and no other session, stored or
\* not, has changed.
C12_GetOrCreateFrame ==
    call.op = "get_or_create_session" =>
        LET k == call.session_id
            o == call.result
            was == call.sessions[k]
        IN  /\ o # 0 /\ sessions[k] = o
            /\ was = 0 => View(heap[o]) = NoSessionView
            /\ was # 0 => o = was /\ View(heap[o]) = View(call.heap[was])
            /\ heap[o].last_activity = call.at
            /\ \A j \in SessionKeys \ {k} : sessions[j] = call.sessions[j]
            /\ \A i \in 1..Len(call.heap) : i # o => heap[i] = call.heap[i]

\* a call on a known id whose session has a turn and an older stamp, with
\* another session stored
C12_Witness ==
    /\ call.op = "get_or_create_session"
    /\ call.sessions[call.session_id] # 0
    /\ heap[call.result].history # <<>>
    /\ call.heap[call.result].last_activity < now
    /\ \E j \in SessionKeys \ {call.session_id} : sessions[j] # 0

\* C13: cleanup_expired_sessions deletes exactly the keys whose session was
\* idle for more than SESSION_TIMEOUT at the time of the call; every other
\* key, one idle for exactly SESSION_TIMEOUT included, still maps to the
\* same session, and no session object has changed.
C13_SweepRemovesExactlyExpired ==
    call.op = "cleanup_expired_sessions" =>
        /\ heap = call.heap
        /\ \A k \in SessionKeys :
              LET was == call.sessions[k]
              IN  sessions[k] =
                    IF was # 0 /\ call.at - call.heap[was].last_activity > SESSION_TIMEOUT
                    THEN 0 ELSE was

\* a sweep that deleted one session and kept one idle for exactly the timeout
C13_Witness ==
    /\ call.op = "cleanup_expired_sessions"
    /\ \E k \in SessionKeys : call.sessions[k] # 0 /\ sessions[k] = 0
    /\ \E k \in SessionKeys :
          /\ sessions[k] # 0
          /\ call.at - heap[sessions[k]].last_activity = SESSION_TIMEOUT

-----------------------------------------------------------------------------
(* FAQRetriever.retrieve on its own: one call at a time on a retriever whose
   platform indices may be missing and whose indices may be empty *)

MaxChunks == 1
MaxScore == 2

\* similarity scores, as levels
Scores == 0..MaxScore

\* the configured confidence floor
ConfidenceFloor == 1

Collections == {"auto", "faqs", "instructions"}

Platforms == {None, "CENGAGE", "MCGRAW_HILL", "PEARSON"}

\* _select_collection: access and troubleshooting queries go to the
\* instructions, everything else to the FAQs
select_collection(query) ==
    IF Contains(query, KwAccess) THEN "instructions" ELSE "faqs"

\* a platform index that was not read has no chunks
InitRetrieve ==
    /\ sessions = [k \in SessionKeys |-> 0]
    /\ heap = <<>>
    /\ now = 0
    /\ req = [r \in Reqs |-> IdleReq]
    /\ call = NoCall
    /\ \E cengage, mcgraw \in BOOLEAN, chunks \in [IndexNames -> 0..MaxChunks] :
          /\ ~cengage => chunks["instructions_cengage"] = 0
          /\ ~mcgraw => chunks["instructions_mcgraw"] = 0
          /\ rag = Retriever(cengage, mcgraw, chunks)
    /\ ui = FreshPage(1, {})

\* retrieve(query, k=1, collection, platform) is entered and the collection
\* selected
RetrieveCall(query, collection, platform) ==
    /\ rag.pc \in {"idle", "returned", "raised"}
    /\ rag' = [Retriever(rag.cengage, rag.mcgraw, rag.chunks) EXCEPT
                 !.pc = "select", !.query = query,
                 !.collection = collection, !.platform = platform,
                 !.selected_collection =
                     IF collection = "auto" THEN select_collection(query)
                     ELSE collection]
    /\ UNCHANGED <<sessions, heap, now, req, call, ui>>

\* the index the platform asks for, if there is one
PlatformIndex(platform) ==
    IF platform = "CENGAGE" THEN "instructions_cengage"
    ELSE IF platform = "MCGRAW_HILL" THEN "instructions_mcgraw"
    ELSE None

\* whether the retriever holds that index
Loaded(index) ==
    \/ index \in {"faq", "instructions"}
    \/ index = "instructions_cengage" /\ rag.cengage
    \/ index = "instructions_mcgraw" /\ rag.mcgraw

\* index selection that filters the chunks by platform, encodes the filtered
\* chunks and builds a temporary index for them (retriever.py before the fix)
SelectIndexRebuild ==
    /\ rag.pc = "select"
    /\ LET filtering == /\ rag.selected_collection = "instructions"
                        /\ rag.platform # None
       IN  rag' = [rag EXCEPT
                     !.pc = "embed",
                     !.index = IF rag.selected_collection = "instructions"
                               THEN "instructions" ELSE "faq",
                     !.embed_calls = IF filtering THEN @ + 1 ELSE @,
                     !.builds = IF filtering THEN @ + 1 ELSE @]
    /\ UNCHANGED <<sessions, heap, now, req, call, ui>>

\* index selection that trusts the platform index to be there
SelectIndexNoFallback ==
    /\ rag.pc = "select"
    /\ LET wanted == PlatformIndex(rag.platform)
           index == IF rag.selected_collection # "instructions" THEN "faq"
                    ELSE IF wanted # None THEN wanted
                    ELSE "instructions"
       IN  rag' = IF Loaded(index)
                  THEN [rag EXCEPT !.pc = "embed", !.index = index]
                  ELSE [rag EXCEPT !.pc = "raised", !.index = index,
                                   !.result = "AttributeError"]
    /\ UNCHANGED <<sessions, heap, now, req, call, ui>>

\* `if selected_collection == "instructions"`: the platform index when the
\* platform names one and it was read, the full instructions index
\* otherwise; the FAQ index for the other collection
SelectIndex ==
    /\ rag.pc = "select"
    /\ rag' = [rag EXCEPT
                 !.pc = "embed",
                 !.index =
                    IF rag.selected_collection = "instructions"
                    THEN IF rag.platform = "CENGAGE" /\ rag.cengage
                         THEN "instructions_cengage"
                         ELSE IF rag.platform = "MCGRAW_HILL" /\ rag.mcgraw
                         THEN "instructions_mcgraw"
                         ELSE "instructions"
                    ELSE "faq"]
    /\ UNCHANGED <<sessions, heap, now, req, call, ui>>

\* query_embedding = self.model.encode([query], ...)
Embed ==
    /\ rag.pc = "embed"
    /\ rag' = [rag EXCEPT !.pc = "search", !.embed_calls = @ + 1]
    /\ UNCHANGED <<sessions, heap, now, req, call, ui>>

\* scores, indices = index.search(..., k): the best chunk and its score, or
\* index -1 when the index holds no vector
Search ==
    /\ rag.pc = "search"
    /\ LET n == rag.chunks[rag.index]
       IN  \/ /\ n = 0
              /\ rag' = [rag EXCEPT !.pc = "return", !.searches = @ + 1,
                                    !.best_index = -1, !.best_score = 0]
           \/ /\ n > 0
              /\ \E i \in 0..(n - 1), score \in Scores :
                    rag' = [rag EXCEPT !.pc = "return", !.searches = @ + 1,
                                       !.best_index = i, !.best_score = score]
    /\ UNCHANGED <<sessions, heap, now, req, call, ui>>

\* the characters \s matches, among those used
Whitespace == {" ", "\n", "\t"}

ArticleLinkLabel == <<"A", "r", "t", "i", "c", "l", "e", " ", "l", "i", "n", "k", ":">>

\* [^"\n]
LinkChar(c) == c # "\"" /\ c # "\n"

\* str.strip()
Strip(s) ==
    LET inked == {i \in 1..Len(s) : s[i] \notin Whitespace}
    IN  IF inked = {} THEN <<>>
        ELSE SubSeq(s, CHOOSE i \in inked : \A j \in inked : i <= j,
                       CHOOSE i \in inked : \A j \in inked : j <= i)

\* the group of Article link:\s*"?([^"\n]+)"? matched with the label at i,
\* as a pair <<first, last>>, or <<>> when the pattern does not match there:
\* \s* takes the longest run of whitespace that lets the rest match, "? takes
\* a quote when there is one, the group then runs as far as it can
GroupAt(s, i) ==
    LET j == i + Len(ArticleLinkLabel)
        runs == {k \in 0..(Len(s) - j + 1) :
                    \A n \in 0..(k - 1) : s[j + n] \in Whitespace}
        First(k) == IF j + k <= Len(s) /\ s[j + k] = "\""
                    THEN j + k + 1 ELSE j + k
        ok == {k \in runs : First(k) <= Len(s) /\ LinkChar(s[First(k)])}
    IN  IF ~StartsAt(s, i, ArticleLinkLabel) \/ ok = {} THEN <<>>
        ELSE LET g == First(CHOOSE k \in ok : \A n \in ok : n <= k)
                 e == CHOOSE e \in g..Len(s) :
                         /\ \A n \in g..e : LinkChar(s[n])
                         /\ e = Len(s) \/ ~LinkChar(s[e + 1])
             IN  <<g, e>>

\* the article link taken as everything after the label up to the line end
extract_article_linkToLineEnd(chunk) ==
    LET at == {i \in 1..Len(chunk) : StartsAt(chunk, i, ArticleLinkLabel)}
    IN  IF at = {} THEN NoText
        ELSE LET j == (CHOOSE i \in at : \A n \in at : i <= n)
                          + Len(ArticleLinkLabel)
                 e == CHOOSE e \in (j - 1)..Len(chunk) :
                         /\ \A n \in j..e : chunk[n] # "\n"
                         /\ e = Len(chunk) \/ chunk[e + 1] = "\n"
             IN  Strip(SubSeq(chunk, j, e))

\* match = re.search(r'Article link:\s*"?([^"\n]+)"?', best_chunk);
\* article_link = match.group(1).strip() if match else None
extract_article_link(chunk) ==
    LET at == {i \in 1..Len(chunk) : GroupAt(chunk, i) # <<>>}
    IN  IF at = {} THEN NoText
        ELSE LET m == GroupAt(chunk, CHOOSE i \in at : \A n \in at : i <= n)
             IN  Strip(SubSeq(chunk, m[1], m[2]))

Url == <<"h", "t", "t", "p", "s", ":", "/", "/", "x">>

ChunkLinkInText == <<"R", "e", "t", "u", "r", "n", "s", ":", " ", "3", "0", " ", "d", "a", "y", "s", ".", "\n", "A", "r", "t", "i", "c", "l", "e", " ", "l", "i", "n", "k", ":", " ", "\"", "h", "t", "t", "p", "s", ":", "/", "/", "x", "\"", "\n", "S", "e", "e", " ", "a", "l", "s", "o", ":", " ", "h", "o", "u", "r", "s">>

ChunkLinkUnquoted == <<"A", "r", "t", "i", "c", "l", "e", " ", "l", "i", "n", "k", ":", " ", " ", "h", "t", "t", "p", "s", ":", "/", "/", "x">>

ChunkNoLink == <<"R", "e", "t", "u", "r", "n", "s", ":", " ", "3", "0", " ", "d", "a", "y", "s", ".">>

ChunkLowerCaseLabel == <<"S", "e", "e", " ", "t", "h", "e", " ", "a", "r", "t", "i", "c", "l", "e", " ", "l", "i", "n", "k", " ", "\"", "h", "t", "t", "p", "s", ":", "/", "/", "x", "\"">>

\* the chunks the FAQ index may point at
FaqChunks ==
    {ChunkWithLink, ChunkLinkInText, ChunkLinkUnquoted, ChunkNoLink,
     ChunkLowerCaseLabel}

\* FAQ branch: best_chunk = self.faq_chunks[best_index] and the dict returned;
\* index -1 into an empty list raises IndexError
ReturnFaq ==
    /\ rag.pc = "return"
    /\ rag.selected_collection = "faqs"
    /\ IF rag.best_index = -1
       THEN rag' = [rag EXCEPT !.pc = "raised", !.result = "IndexError"]
       ELSE \E best_chunk \in FaqChunks :
               rag' = [rag EXCEPT !.pc = "returned",
                                  !.result = "RetrievalResult",
                                  !.context = best_chunk,
                                  !.article_link =
                                      extract_article_link(best_chunk)]
    /\ UNCHANGED <<sessions, heap, now, req, call, ui>>

\* instructions branch: NoMatch for an empty index or a score below the
\* floor, the best chunk otherwise
ReturnInstructions ==
    /\ rag.pc = "return"
    /\ rag.selected_collection = "instructions"
    /\ rag' = [rag EXCEPT
                 !.pc = "returned",
                 !.result = IF rag.best_index = -1
                               \/ rag.best_score < ConfidenceFloor
                            THEN "NoMatch" ELSE "RetrievalResult"]
    /\ UNCHANGED <<sessions, heap, now, req, call, ui>>

NextRetrieve ==
    \/ \E q \in Messages, c \in Collections, p \in Platforms :
          RetrieveCall(q, c, p)
    \/ SelectIndex
    \/ Embed
    \/ Search
    \/ ReturnFaq
    \/ ReturnInstructions

SpecRetrieve == InitRetrieve /\ [][NextRetrieve]_vars

\* a retrieve call that has ended, by returning or by raising
Ended == rag.pc \in {"returned", "raised"}

\* C14: a retrieve call, whatever the collection and the platform, has made
\* exactly one embedding call and exactly one index search when it ends, and
\* at no point has it built an index or made a second embedding call.
C14_OneEmbedOneSearch ==
    /\ rag.builds = 0 /\ rag.embed_calls <= 1 /\ rag.searches <= 1
    /\ Ended => rag.embed_calls = 1 /\ rag.searches = 1

\* a call for a platform's instructions has ended
C14_Witness ==
    /\ Ended
    /\ rag.selected_collection = "instructions"
    /\ rag.platform = "CENGAGE"
    /\ rag.embed_calls = 1 /\ rag.searches = 1

\* C15: for the instructions, the index searched is the platform's own when
\* the platform names one and it was read, and the full instructions index
\* otherwise (no platform, unknown platform, index file missing), and index
\* selection raises nothing; for the FAQs the index searched is the FAQ index
\* whatever the platform.
C15_PlatformIndexOrFallback ==
    rag.pc \notin {"idle", "select"} =>
        LET wanted == PlatformIndex(rag.platform)
        IN  /\ rag.selected_collection = "instructions" =>
                /\ rag.index = IF wanted # None /\ Loaded(wanted)
                               THEN wanted ELSE "instructions"
                /\ rag.pc # "raised"
            /\ rag.selected_collection = "faqs" => rag.index = "faq"

\* a call for a platform whose index file was missing has searched the full
\* instructions index and returned
C15_Witness ==
    /\ rag.pc = "returned"
    /\ rag.selected_collection = "instructions"
    /\ rag.platform = "CENGAGE" /\ ~rag.cengage
    /\ rag.index = "instructions" /\ rag.searches = 1

\* C16: a retrieve call whose index is empty or whose top score is below the
\* confidence floor returns NoMatch and raises nothing, and a call that
\* returns a RetrievalResult had a top score at or above the floor.
C16_NoMatchBelowFloor ==
    Ended =>
        /\ (rag.chunks[rag.index] = 0 \/ rag.best_score < ConfidenceFloor)
              => rag.pc = "returned" /\ rag.result = "NoMatch"
        /\ rag.result = "RetrievalResult" => rag.best_score >= ConfidenceFloor

-----------------------------------------------------------------------------
(* Follow-up messages: requests served one after the other on a session that
   may already hold a conversation *)

MsgWhereFindIt == <<"w", "h", "e", "r", "e", " ", "c", "a", "n", " ", "I", " ", "f", "i", "n", "d", " ", "i", "t">>

MsgItIsBIO101 == <<"i", "t", " ", "i", "s", " ", "B", "I", "O", "1", "0", "1">>

\* a follow-up with a pronoun, a course-code reply with a pronoun, an access
\* issue without a course code
FollowUpMessages == {MsgWhereFindIt, MsgItIsBIO101, MsgCantAccess}

\* a reply longer than the excerpt taken from it, its end unlike its start
ReplyTailChars == 5

LongReply ==
    [i \in 1..(ExcerptChars + ReplyTailChars) |->
        IF i <= ExcerptChars THEN "a" ELSE "z"]

\* a stored session after one question and its reply
Conversed(reply) ==
    [history |-> <<Turn("user", MsgReturnPolicy, 0),
                   Turn("assistant", reply, 0)>>,
     awaiting_course_code |-> FALSE,
     stored_intent |-> None, stored_platform |-> None, last_activity |-> 0]

\* the store is empty, or "default" holds a conversation with a short or a
\* long reply
InitFollowUp ==
    /\ now = 0
    /\ req = [r \in Reqs |-> IdleReq]
    /\ call = NoCall
    /\ rag = IdleRetriever
    /\ ui = FreshPage(1, {})
    /\ \/ /\ sessions = [k \in SessionKeys |-> 0]
          /\ heap = <<>>
       \/ /\ sessions = [k \in SessionKeys |-> IF k = "default" THEN 1 ELSE 0]
          /\ \E reply \in {GeneratedReply, LongReply} :
                heap = <<Conversed(reply)>>

\* a request arrives when the one before it has ended
ReceiveNext(r, payload_id, message) ==
    /\ \A q \in Reqs : ~InFlight(q)
    /\ Receive(r, payload_id, message)

NextFollowUp ==
    \/ \E r \in Reqs, m \in FollowUpMessages : ReceiveNext(r, None, m)
    \/ \E r \in Reqs : CreateOrRefresh(r)
    \/ \E r \in Reqs : StateCheck(r)
    \/ \E r \in Reqs : SlotFillRead(r)
    \/ \E r \in Reqs : ClearState(r)
    \/ \E r \in Reqs : AskClarification(r)
    \/ \E r \in Reqs : AppendUserTurn(r)
    \/ \E r \in Reqs : Retrieve(r)
    \/ \E r \in Reqs : RetrieveAbort(r)
    \/ \E r \in Reqs : Generate(r)
    \/ \E r \in Reqs : GenerateFail(r)
    \/ \E r \in Reqs : AppendAssistantTurn(r)

SpecFollowUp == InitFollowUp /\ [][NextFollowUp]_vars

\* the message has one of the pronouns among its words
HasDeictic(message) == Split(Lower(message)) \cap pronouns # {}

\* the last n characters of s
LastChars(s, n) == SubSeq(s, Len(s) - n + 1, Len(s))

\* C17: the retrieval query differs from the message only when the message
\* has a deictic term and the history has an assistant turn, and it is then
\* a trailing excerpt of the most recent assistant turn, a space and the
\* message; without a deictic term or without an assistant turn it is the
\* message.
C17_QueryPrependsTrailingExcerpt ==
    \A r \in Reqs :
        req[r].pc = "generate" =>
            LET message == req[r].message
                last == LastAssistant(heap[req[r].session].history)
            IN  /\ req[r].query # message =>
                      /\ HasDeictic(message) /\ last # NoText
                      /\ \E n \in 1..Len(last) :
                            req[r].query = LastChars(last, n) \o <<" ">> \o message
                /\ (~HasDeictic(message) \/ last = NoText) =>
                      req[r].query = message

\* C18: a message handled while the session was awaiting the course code is
\* retrieved with the message itself as the query.
C18_NoReformulationWhileAwaiting ==
    \A r \in Reqs :
        (req[r].branch = "slot" /\ req[r].retrieval = "done")
            => req[r].query = req[r].message

\* C19: every user turn a request appended holds that request's message as
\* it arrived, and when the contextual query has been built the history is
\* what it was at arrival with that one turn added.
C19_HistoryKeepsRawMessage ==
    /\ \A o \in Objects : \A i \in 1..Len(heap[o].history) :
          LET t == heap[o].history[i]
          IN  (t.role = "user" /\ t.req \in Reqs)
                  => t.content = req[t.req].message
    /\ \A r \in Reqs :
          (req[r].pc = "generate" /\ ~req[r].concurrent) =>
              heap[req[r].session].history =
                  Append(req[r].pre.history, Turn("user", req[r].message, r))

\* a request whose query was reformulated and whose user turn is in the
\* history
C19_Witness ==
    \E r \in Reqs :
        /\ req[r].pc = "generate"
        /\ req[r].query # req[r].message
        /\ LET h == heap[req[r].session].history
           IN  h[Len(h)] = Turn("user", req[r].message, r)

\* C20: a request whose generation call failed still ends with a reply.
C20_GenerationFailureStillReplies ==
    \A r \in Reqs :
        (Finished(r) /\ req[r].retrieval = "done")
            => req[r].response.kind = "reply"

-----------------------------------------------------------------------------
(* The default session *)

\* no two requests on "default" overlapped
DefaultServedInTurn ==
    \A q \in Reqs : req[q].session_id = "default" => ~req[q].concurrent

-----------------------------------------------------------------------------
(* Grounding context *)

\* C22: no message handed to the generator with role assistant carries the
\* retrieved context, and no assistant turn of a history does.
C22_ContextNeverAssistantTurn ==
    /\ \A r \in Reqs : \A i \in 1..Len(req[r].llm_messages) :
          req[r].llm_messages[i].role = "assistant"
              => ~Contains(req[r].llm_messages[i].content, ChunkWithLink)
    /\ \A o \in Objects : \A i \in 1..Len(heap[o].history) :
          heap[o].history[i].role = "assistant"
              => ~Contains(heap[o].history[i].content, ChunkWithLink)

\* C23: a FAQ chunk that contains Article link: "https://x" comes back with
\* article_link https://x, and a chunk without the label comes back, with no
\* error, with no article link.
C23_CitationRoundTrip ==
    (rag.selected_collection = "faqs" /\ rag.context # NoText) =>
        /\ rag.pc = "returned"
        /\ Contains(rag.context, ChunkWithLink) => rag.article_link = Url
        /\ ~Contains(rag.context, ArticleLinkLabel) => rag.article_link = NoText

\* a chunk with text around the quoted link has been returned
C23_Witness ==
    /\ rag.pc = "returned"
    /\ rag.context = ChunkLinkInText
    /\ rag.article_link = Url

-----------------------------------------------------------------------------
(* The React page: App (session id, message list, loading flag, API status),
   ChatInput (draft), WelcomeState (suggested prompts) and the requests of
   services/api.  An event handler and the render that follows it are one
   step; a promise settles in a step of its own. *)

MaxPages == 2
MaxSends == 2

\* drafts typed into the textarea: empty, blank, text with a leading space
Drafts == {<<>>, <<" ", " ">>, <<" ", "h", "i">>}

PromptCengage == <<"I", " ", "c", "a", "n", "'", "t", " ", "a", "c", "c", "e", "s", "s", " ", "m", "y", " ", "C", "e", "n", "g", "a", "g", "e", " ", "t", "e", "x", "t", "b", "o", "o", "k">>

PromptImmediateAccess == <<"W", "h", "a", "t", " ", "i", "s", " ", "I", "m", "m", "e", "d", "i", "a", "t", "e", " ", "A", "c", "c", "e", "s", "s", "?">>

\* two of the four suggested prompts
suggestedPrompts == {PromptCengage, PromptImmediateAccess}

ErrorText == <<"S", "o", "r", "r", "y", ",", " ", "I", "'", "m", " ", "h", "a", "v", "i", "n", "g", " ", "t", "r", "o", "u", "b", "l", "e", " ", "c", "o", "n", "n", "e", "c", "t", "i", "n", "g", " ", "t", "o", " ", "t", "h", "e", " ", "s", "e", "r", "v", "e", "r", ".", " ", "P", "l", "e", "a", "s", "e", " ", "t", "r", "y", " ", "a", "g", "a", "i", "n", ".">>

Message(type, content) == [type |-> type, content |-> content]

\* the session id of `session-${Date.now()}-${random}`, one per page load
NewSessionId(page) == page

InitUi ==
    /\ sessions = [k \in SessionKeys |-> 0]
    /\ heap = <<>>
    /\ now = 0
    /\ req = [r \in Reqs |-> IdleReq]
    /\ call = NoCall
    /\ rag = IdleRetriever
    /\ ui = FreshPage(1, {})

\* the mount effect: the session id is generated and stored, the health
\* check is started
Mount ==
    /\ ~ui.mounted
    /\ ui' = [ui EXCEPT !.mounted = TRUE,
                        !.sessionId = NewSessionId(ui.page),
                        !.health = "pending",
                        !.event = NoEvent]
    /\ UNCHANGED <<sessions, heap, now, req, call, rag>>

\* checkApiHealth() resolves: response.ok, or false when fetch throws
HealthResolve(isHealthy) ==
    /\ ui.health = "pending"
    /\ ui' = [ui EXCEPT !.health = "done",
                        !.apiStatus = IF isHealthy THEN "connected"
                                      ELSE "disconnected",
                        !.event = NoEvent]
    /\ UNCHANGED <<sessions, heap, now, req, call, rag>>

\* onChange of the textarea, which is disabled while loading
Type(draft) ==
    /\ ui.mounted
    /\ ~ui.isLoading
    /\ ui.message # draft
    /\ ui' = [ui EXCEPT !.message = draft, !.event = NoEvent]
    /\ UNCHANGED <<sessions, heap, now, req, call, rag>>

\* the session_id of the request body that leaves it out
RequestSessionIdOmitted(sessionId) == 0

\* body: JSON.stringify({message, session_id: sessionId})
RequestSessionId(sessionId) == sessionId

\* handleSendMessage up to its await: the user message is appended, isLoading
\* is set and the request leaves with the session id and the apiStatus of
\* the render the handler belongs to
handleSendMessage(u, content) ==
    [u EXCEPT !.messages = Append(@, Message("user", content)),
              !.isLoading = TRUE,
              !.requests = Append(@, [content |-> content,
                                      session_id |-> RequestSessionId(u.sessionId),
                                      apiStatus |-> u.apiStatus,
                                      state |-> "pending"])]

\* what a submit event or a settled request leaves behind for the
\* properties: the draft, the disabled prop and the number of requests sent,
\* as the handler found them
Event(kind) ==
    [kind |-> kind, draft |-> ui.message, disabled |-> ui.isLoading,
     sent |-> Len(ui.requests)]

\* handleSubmit without the test of the disabled prop
SubmitIgnoringDisabled ==
    /\ ui.mounted
    /\ IF Strip(ui.message) # <<>>
       THEN /\ Len(ui.requests) < MaxSends
            /\ ui' = [handleSendMessage(ui, ui.message) EXCEPT
                        !.message = <<>>, !.event = Event("submit")]
       ELSE ui' = [ui EXCEPT !.event = Event("submit")]
    /\ UNCHANGED <<sessions, heap, now, req, call, rag>>

\* ChatInput.handleSubmit, reached by the form's submit and by the Enter
\* key: if (message.trim() && !disabled) { onSendMessage(message);
\* setMessage('') }
Submit ==
    /\ ui.mounted
    /\ IF Strip(ui.message) # <<>> /\ ~ui.isLoading
       THEN /\ Len(ui.requests) < MaxSends
            /\ ui' = [handleSendMessage(ui, ui.message) EXCEPT
                        !.message = <<>>, !.event = Event("submit")]
       ELSE ui' = [ui EXCEPT !.event = Event("submit")]
    /\ UNCHANGED <<sessions, heap, now, req, call, rag>>

\* a suggested prompt clicked with WelcomeState rendered whatever the
\* message list holds
PromptClickAlways(prompt) ==
    /\ ui.mounted
    /\ Len(ui.requests) < MaxSends
    /\ ui' = [handleSendMessage(ui, prompt) EXCEPT !.event = NoEvent]
    /\ UNCHANGED <<sessions, heap, now, req, call, rag>>

\* a suggested prompt is clicked: WelcomeState is rendered only while the
\* message list is empty; handlePromptClick calls handleSendMessage
PromptClick(prompt) ==
    /\ ui.mounted
    /\ ui.messages = <<>>
    /\ Len(ui.requests) < MaxSends
    /\ ui' = [handleSendMessage(ui, prompt) EXCEPT !.event = NoEvent]
    /\ UNCHANGED <<sessions, heap, now, req, call, rag>>

\* sendChatMessage resolves: the assistant message is appended, apiStatus is
\* set to connected if the handler's render did not have it so, and the
\* finally block clears isLoading
ChatSucceed(i) ==
    /\ i \in 1..Len(ui.requests)
    /\ ui.requests[i].state = "pending"
    /\ ui' = [ui EXCEPT
                !.messages = Append(@, Message("assistant", GeneratedReply)),
                !.apiStatus = IF ui.requests[i].apiStatus # "connected"
                              THEN "connected" ELSE @,
                !.isLoading = FALSE,
                !.requests[i].state = "ok",
                !.event = Event("succeeded")]
    /\ UNCHANGED <<sessions, heap, now, req, call, rag>>

\* the catch block without the finally block after it
ChatFailNoFinally(i) ==
    /\ i \in 1..Len(ui.requests)
    /\ ui.requests[i].state = "pending"
    /\ ui' = [ui EXCEPT
                !.messages = Append(@, Message("system", ErrorText)),
                !.apiStatus = "disconnected",
                !.requests[i].state = "failed",
                !.event = Event("failed")]
    /\ UNCHANGED <<sessions, heap, now, req, call, rag>>

\* the catch block without the error message
ChatFailSilent(i) ==
    /\ i \in 1..Len(ui.requests)
    /\ ui.requests[i].state = "pending"
    /\ ui' = [ui EXCEPT
                !.apiStatus = "disconnected",
                !.isLoading = FALSE,
                !.requests[i].state = "failed",
                !.event = Event("failed")]
    /\ UNCHANGED <<sessions, heap, now, req, call, rag>>

\* sendChatMessage throws (fetch rejects, or the status is not OK): the
\* system error message is appended, apiStatus is set to disconnected, and
\* the finally block clears isLoading
ChatFail(i) ==
    /\ i \in 1..Len(ui.requests)
    /\ ui.requests[i].state = "pending"
    /\ ui' = [ui EXCEPT
                !.messages = Append(@, Message("system", ErrorText)),
                !.apiStatus = "disconnected",
                !.isLoading = FALSE,
                !.requests[i].state = "failed",
                !.event = Event("failed")]
    /\ UNCHANGED <<sessions, heap, now, req, call, rag>>

\* the page is reloaded: a new page with fresh state, the promises of the
\* old one gone with it
Reload ==
    /\ ui.mounted
    /\ ui.page < MaxPages
    /\ ui' = FreshPage(ui.page + 1, ui.previous_ids \cup {ui.sessionId})
    /\ UNCHANGED <<sessions, heap, now, req, call, rag>>

NextUi ==
    \/ Mount
    \/ \E isHealthy \in BOOLEAN : HealthResolve(isHealthy)
    \/ \E draft \in Drafts : Type(draft)
    \/ Submit
    \/ \E prompt \in suggestedPrompts : PromptClick(prompt)
    \/ \E i \in 1..MaxSends : ChatSucceed(i)
    \/ \E i \in 1..MaxSends : ChatFail(i)
    \/ Reload

SpecUi == InitUi /\ [][NextUi]_vars

\* the requests of this page that have not settled
Pending == {i \in 1..Len(ui.requests) : ui.requests[i].state = "pending"}

\* C24: when a chat request has just failed, the last message is a system
\* error message and apiStatus is disconnected; when one has just succeeded,
\* apiStatus is connected.
C24_StatusFollowsOutcome ==
    /\ ui.event.kind = "failed" =>
          /\ ui.messages[Len(ui.messages)] = Message("system", ErrorText)
          /\ ui.apiStatus = "disconnected"
    /\ ui.event.kind = "succeeded" => ui.apiStatus = "connected"

\* C25: isLoading is true exactly while a request of the page has not
\* settled: from the send until the request settles, and false again after
\* it has, by success or by failure.
C25_LoadingWhileInFlight == ui.isLoading <=> Pending # {}

\* a request has failed and the input is enabled again
C25_Witness ==
    /\ ~ui.isLoading
    /\ \E i \in 1..Len(ui.requests) : ui.requests[i].state = "failed"

\* C26: once mounted, the page holds the session id generated for it, which
\* is not empty and was not the id of an earlier page, and every request the
\* page has sent carries it.
C26_OneSessionIdPerPage ==
    /\ ui.mounted =>
          /\ ui.sessionId = NewSessionId(ui.page)
          /\ ui.sessionId # 0
          /\ ui.sessionId \notin ui.previous_ids
    /\ \A i \in 1..Len(ui.requests) :
          ui.requests[i].session_id = ui.sessionId /\ ui.sessionId # 0

\* a reloaded page has sent two requests
C26_Witness ==
    /\ ui.previous_ids # {}
    /\ Len(ui.requests) = 2

\* C27: at most one chat request of the page is unsettled at any time.
C27_OneRequestInFlight == Cardinality(Pending) <= 1

\* a submit with a draft to send was handled while a request was in flight
C27_Witness ==
    /\ Pending # {}
    /\ ui.event.kind = "submit"
    /\ ui.event.disabled /\ Strip(ui.event.draft) # <<>>

\* the number of requests among the first k of the page that have settled
RECURSIVE SettledUpTo(_)
SettledUpTo(k) ==
    IF k = 0 THEN 0
    ELSE SettledUpTo(k - 1) + (IF ui.requests[k].state = "pending" THEN 0 ELSE 1)

C29_ConnectedUntilChatFails ==
    [][ui'.page = ui.page =>
          /\ (/\ \E i \in 1..Len(ui.requests) : ui.requests[i].state = "ok"
              /\ ui.apiStatus = "connected"
              /\ ui'.apiStatus # "connected")
             => \E i \in 1..Len(ui.requests) :
                   /\ ui.requests[i].state = "pending"
                   /\ ui'.requests[i].state = "failed"
          /\ ui.apiStatus # "checking" => ui'.apiStatus # "checking"]_vars

\* C30: a submit that found the input enabled and a draft that is not blank
\* sent exactly one request with the draft as typed and cleared the draft;
\* any other submit sent nothing and left the draft as it was.
C30_SubmitSendsDraftOnce ==
    ui.event.kind = "submit" =>
        IF Strip(ui.event.draft) # <<>> /\ ~ui.event.disabled
        THEN /\ Len(ui.requests) = ui.event.sent + 1
             /\ ui.requests[Len(ui.requests)].content = ui.event.draft
             /\ ui.messages[Len(ui.messages)] = Message("user", ui.event.draft)
             /\ ui.message = <<>>
        ELSE /\ Len(ui.requests) = ui.event.sent
             /\ ui.message = ui.event.draft

\* a draft with leading blanks was submitted while the input was enabled,
\* and was sent as typed
C30_Witness ==
    /\ ui.event.kind = "submit"
    /\ ui.event.draft = <<" ", "h", "i">> /\ ~ui.event.disabled
    /\ Len(ui.requests) = ui.event.sent + 1

====
